---- MODULE Spec2Model ----
(***************************************************************************)
(* State-machine model of OsvrRenderingPlugin.cpp: the Unity native        *)
(* rendering plugin that binds an OSVR RenderManager to the host's         *)
(* graphics device, registers per-eye render buffers and presents them.    *)
(*                                                                         *)
(* Every C function of the plugin is an operator from a state record (the  *)
(* plugin's globals plus the heap objects they point to) to a state        *)
(* record; every exported entry point is an action that commits the record *)
(* its function returns.  Undefined behaviour (null or dangling `render`,  *)
(* double delete, vector index past the end) is recorded in `fault`; the   *)
(* call then either kills the process or returns with an arbitrary value,  *)
(* and nothing is said about what the process does afterwards.             *)
(***************************************************************************)
EXTENDS Integers, Sequences, FiniteSets, TLC

VARIABLES
    s_Graphics,          \* 0 = nullptr, 1 = the host's IUnityGraphics
    registered,          \* OnGraphicsDeviceEvent is registered with the host
    renderer,            \* what s_Graphics->GetRenderer() reports (host-owned)
    s_DeviceType,        \* UnityGfxRenderer
    displayEyes,         \* eyes of the display the RenderManager drives (host-owned)
    render,              \* 0 = nullptr, 1 = the RenderManager constructed last
    mgr,                 \* heap: the RenderManager `render` points to
    clientContext,       \* OSVR_ClientContext, 0 = unset
    renderInfo,          \* std::vector<RenderInfo>
    renderBuffers,       \* std::vector<RenderBuffer>
    native,              \* heap: every native color target ever created
    leftEyeTexturePtr,   \* 0 = nullptr
    rightEyeTexturePtr,  \* 0 = nullptr
    libraryD3D11,        \* library.D3D11: 0 = nullptr, else the binding's number
    bindings,            \* number of GraphicsLibraryD3D11 objects allocated and not freed
    frameBuffer,         \* GLuint frameBuffer: 0 = none, else index into fbos
    fbos,                \* GL framebuffer objects ever generated
    lastOp,              \* the entry point that ran last, with its argument
    calls,               \* calls it made on its collaborators, in order
    ret,                 \* what it returned
    constructRet,        \* what ConstructBuffersD3D11 returned inside it
    fault,               \* first undefined behaviour it ran into, or "none"
    crashed,             \* the process died of it
    tickPc,              \* render thread: "idle", or "loop" inside a render tick
    tickI,               \* the tick's loop variable i
    scriptWrote,         \* shared objects the script thread wrote since the tick's refresh
    tickReads            \* per read of the tick's loop and present, in order: what
                         \* the script thread had written to the vectors it read

vars == <<s_Graphics, registered, renderer, displayEyes, s_DeviceType, render, mgr,
          clientContext, renderInfo, renderBuffers, native, leftEyeTexturePtr,
          rightEyeTexturePtr, libraryD3D11, bindings, frameBuffer, fbos,
          lastOp, calls, ret, constructRet, fault, crashed,
          tickPc, tickI, scriptWrote, tickReads>>

\* Where the render thread stands inside OnRenderEvent
threadVars == <<tickPc, tickI, scriptWrote, tickReads>>

-----------------------------------------------------------------------------
\* Bounds of the model

\* Native color targets created in one run
MaxNative == 2
\* GraphicsLibraryD3D11 objects allocated in one run
MaxBindings == 2

-----------------------------------------------------------------------------
\* Program constants.  UnityGfxRenderer and UnityGfxDeviceEventType carry the
\* values of Unity's IUnityGraphics.h; none of the renderer kinds is -1.

kUnityGfxRendererOpenGL == 0
kUnityGfxRendererD3D11 == 2
kUnityGfxRendererNull == 4

kUnityGfxDeviceEventInitialize == 0
kUnityGfxDeviceEventShutdown == 1
kUnityGfxDeviceEventBeforeReset == 2
kUnityGfxDeviceEventAfterReset == 3

kOsvrEventID_Render == 0
kOsvrEventID_Shutdown == 1

OSVR_RETURN_SUCCESS == "Success"
OSVR_RETURN_FAILURE == "Failure"

\* Inputs the host can supply
\* Renderer kinds s_Graphics->GetRenderer() may report; 1 is
\* kUnityGfxRendererD3D9, a kind the plugin has no backend for
HostRenderers == {kUnityGfxRendererOpenGL, 1, kUnityGfxRendererD3D11,
                  kUnityGfxRendererNull}
DeviceEvents == {kUnityGfxDeviceEventInitialize, kUnityGfxDeviceEventShutdown,
                 kUnityGfxDeviceEventBeforeReset, kUnityGfxDeviceEventAfterReset}
RenderEventIDs == {kOsvrEventID_Render, kOsvrEventID_Shutdown, 2}
\* The host renders each eye into a texture of its own
HostTexturePtrs(eye) == {eye + 1}
Eyes == {0, 1}
Contexts == {1}
EyeCounts == {1, 2}
Poses == {0, 1}
CreateOutcomes == {"null", "notOkay", "okay"}

-----------------------------------------------------------------------------
\* The plugin's globals and heap as one record

State ==
    [s_Graphics |-> s_Graphics, registered |-> registered, renderer |-> renderer,
     displayEyes |-> displayEyes,
     s_DeviceType |-> s_DeviceType, render |-> render, mgr |-> mgr,
     clientContext |-> clientContext,
     renderInfo |-> renderInfo, renderBuffers |-> renderBuffers,
     native |-> native, leftEyeTexturePtr |-> leftEyeTexturePtr,
     rightEyeTexturePtr |-> rightEyeTexturePtr, libraryD3D11 |-> libraryD3D11,
     bindings |-> bindings, frameBuffer |-> frameBuffer, fbos |-> fbos,
     calls |-> <<>>, ret |-> "void", constructRet |-> "none", fault |-> "none"]

Call(op, a, b) == [op |-> op, a |-> a, b |-> b]

Log(s, op, a, b) == [s EXCEPT !.calls = Append(@, Call(op, a, b))]

AddFault(s, f) == IF s.fault = "none" THEN [s EXCEPT !.fault = f] ELSE s

\* What RenderManager::GetRenderInfo answers from the tracker state `pose`: one
\* entry per eye of the display, each stamped with that tracker state
InfoOf(n, pose) == [i \in 1..n |-> [eye |-> i - 1, pose |-> pose]]

\* Values a read through a null or dangling `render` may produce
GarbageInfos == {<<>>} \cup {InfoOf(displayEyes, p) : p \in Poses}

\* What dereferencing `render` runs into
RenderDeref(s) ==
    IF s.render = 0 THEN "null_deref"
    ELSE IF s.mgr.st = "freed" THEN "use_after_free"
    ELSE "none"

\* What the outside world decides during one call: the tracker state the
\* manager answers from, and what a read through a bad `render` produces
EnvChoices(s) ==
    IF RenderDeref(s) # "none"
    THEN {[pose |-> 0, garbage |-> g] : g \in GarbageInfos}
    ELSE {[pose |-> p, garbage |-> <<>>] : p \in Poses}

\* What the outside world decides during one render tick: the above, and
\* whether PresentRenderBuffers reports success
TickChoices(s) ==
    {[pose |-> e.pose, garbage |-> e.garbage, presentOK |-> b] :
        e \in EnvChoices(s),
        b \in IF s.s_DeviceType \in {kUnityGfxRendererD3D11, kUnityGfxRendererOpenGL}
              THEN BOOLEAN ELSE {TRUE}}

\* renderInfo = render->GetRenderInfo();   a manager that is not okay, or whose
\* display is not open, answers with no entries
RefreshRenderInfo(s, env) ==
    LET d == RenderDeref(s)
        info == IF d # "none" THEN env.garbage
                ELSE IF s.mgr.okay /\ s.mgr.opened
                     THEN InfoOf(s.displayEyes, env.pose)
                     ELSE <<>>
    IN  [Log(AddFault(s, d), "GetRenderInfo",
             IF info = <<>> THEN -1 ELSE info[1].pose, Len(info))
            EXCEPT !.renderInfo = info]

\* What a dangling `render` points to: the manager is gone, and with it
\* whether it was okay and had its display open
FreedManager == [st |-> "freed", okay |-> FALSE, opened |-> FALSE]

\* delete render;   (the pointer keeps its value)
DeleteRender(s) ==
    IF s.render = 0 THEN s
    ELSE IF s.mgr.st = "freed"
         THEN Log(AddFault(s, "double_free"), "delete_render", s.render, 0)
         ELSE [Log(s, "delete_render", s.render, 0) EXCEPT !.mgr = FreedManager]

\* void Shutdown(), case kUnityGfxRendererOpenGL: glDeleteFramebuffers(1, &frameBuffer)
\* (GL ignores 0 and names that are no framebuffer object; frameBuffer keeps its value)
DeleteFramebuffer(s) ==
    LET s1 == Log(s, "glDeleteFramebuffers", s.frameBuffer, 0)
    IN  IF s.frameBuffer # 0 /\ s.fbos[s.frameBuffer] = "live"
        THEN [s1 EXCEPT !.fbos[s.frameBuffer] = "deleted"]
        ELSE s1

\* One pass of the loop of Shutdown(), case kUnityGfxRendererOpenGL, i counted from 1:
\*   glDeleteTextures(1, &renderBuffers[i].OpenGL->colorBufferName);
\*   delete renderBuffers[i].OpenGL;
ShutdownEye(s, i) ==
    IF i > Len(s.renderBuffers) THEN AddFault(s, "index_out_of_range")
    ELSE LET id == s.renderBuffers[i].id
             s1 == Log(s, "glDeleteTextures", id, 0)
         IN  IF s.native[id].wrapper = "freed"
             THEN AddFault(s1, "use_after_free")
             ELSE [s1 EXCEPT !.native[id].color = "released",
                             !.native[id].wrapper = "freed"]

RECURSIVE ShutdownLoop(_, _)
ShutdownLoop(s, i) ==
    IF i > Len(s.renderInfo) THEN s ELSE ShutdownLoop(ShutdownEye(s, i), i + 1)

\* void Shutdown()
Shutdown(s) ==
    IF s.s_DeviceType = kUnityGfxRendererD3D11
    THEN DeleteRender([s EXCEPT !.rightEyeTexturePtr = 0, !.leftEyeTexturePtr = 0])
    ELSE IF s.s_DeviceType = kUnityGfxRendererOpenGL
         THEN ShutdownLoop(DeleteFramebuffer(s), 1)
         ELSE s

\* renderBuffers.push_back(rb) of a buffer wrapping a newly created color target
PushBuffer(s, eye, depth) ==
    LET id == Len(s.native) + 1
    IN  [s EXCEPT !.native = Append(@, [color |-> "live", wrapper |-> "live",
                                        depth |-> depth]),
                  !.renderBuffers = Append(@, [id |-> id, eye |-> eye])]

\* renderInfo[eye] read by the buffer constructors
ReadInfo(s, eye) ==
    IF eye + 1 > Len(s.renderInfo) THEN AddFault(s, "index_out_of_range") ELSE s

\* void ConstructBuffersOpenGL(int eye)
ConstructBuffersOpenGL(s, eye, env) ==
    LET s1 == RefreshRenderInfo(Log(s, "osvrClientUpdate", s.clientContext, 0), env)
        s2 == IF eye = 0
              THEN [Log(s1, "glGenFramebuffers", Len(s1.fbos) + 1, 0)
                       EXCEPT !.fbos = Append(@, "live"),
                              !.frameBuffer = Len(s1.fbos) + 1]
              ELSE s1
        s3 == PushBuffer(Log(s2, "glGenRenderbuffers", eye, 0), eye, "live")
    IN  ReadInfo(s3, eye)

\* A constructor that registers the buffer before it looks at what
\* CreateRenderTargetView reported
ConstructBuffersD3D11_PushesOnViewFailure(s, eye, texOK, viewOK, env) ==
    LET s1 == ReadInfo(RefreshRenderInfo(s, env), eye)
        s2 == Log(s1, "CreateTexture2D", eye, 0)
        s3 == PushBuffer(Log(s2, "CreateRenderTargetView", eye, 0), eye, "none")
    IN  IF ~texOK THEN [s2 EXCEPT !.constructRet = OSVR_RETURN_FAILURE]
        ELSE [s3 EXCEPT !.constructRet = IF viewOK THEN OSVR_RETURN_SUCCESS
                                         ELSE OSVR_RETURN_FAILURE]

\* int ConstructBuffersD3D11(int eye); texOK and viewOK say whether
\* CreateTexture2D and CreateRenderTargetView succeed
ConstructBuffersD3D11(s, eye, texOK, viewOK, env) ==
    LET s1 == ReadInfo(RefreshRenderInfo(s, env), eye)
        s2 == Log(s1, "CreateTexture2D", eye, 0)
        leaked == [s2 EXCEPT !.native = Append(@, [color |-> "live", wrapper |-> "none",
                                                   depth |-> "none"])]
    IN  IF ~texOK THEN [s2 EXCEPT !.constructRet = OSVR_RETURN_FAILURE]
        ELSE IF ~viewOK
             THEN [Log(leaked, "CreateRenderTargetView", eye, 0)
                      EXCEPT !.constructRet = OSVR_RETURN_FAILURE]
             ELSE [PushBuffer(Log(s2, "CreateRenderTargetView", eye, 0), eye, "none")
                      EXCEPT !.constructRet = OSVR_RETURN_SUCCESS]

\* A registration whose default case reports success
SetColorBufferFromUnity_DefaultSucceeds(s, texturePtr, eye, texOK, viewOK, env) ==
    LET s1 == IF eye = 0 THEN [s EXCEPT !.leftEyeTexturePtr = texturePtr]
              ELSE [s EXCEPT !.rightEyeTexturePtr = texturePtr]
        s2 == IF s.s_DeviceType = kUnityGfxRendererD3D11
              THEN ConstructBuffersD3D11(s1, eye, texOK, viewOK, env)
              ELSE IF s.s_DeviceType = kUnityGfxRendererOpenGL
                   THEN ConstructBuffersOpenGL(s1, eye, env)
                   ELSE s1
    IN  [s2 EXCEPT !.ret = OSVR_RETURN_SUCCESS]

\* int SetColorBufferFromUnity(void *texturePtr, int eye)
SetColorBufferFromUnity(s, texturePtr, eye, texOK, viewOK, env) ==
    IF s.s_DeviceType = -1 THEN [s EXCEPT !.ret = OSVR_RETURN_FAILURE]
    ELSE LET s1 == IF eye = 0 THEN [s EXCEPT !.leftEyeTexturePtr = texturePtr]
                   ELSE [s EXCEPT !.rightEyeTexturePtr = texturePtr]
         IN  IF s.s_DeviceType = kUnityGfxRendererD3D11
             THEN [ConstructBuffersD3D11(s1, eye, texOK, viewOK, env)
                      EXCEPT !.ret = OSVR_RETURN_SUCCESS]
             ELSE IF s.s_DeviceType = kUnityGfxRendererOpenGL
                  THEN [ConstructBuffersOpenGL(s1, eye, env)
                           EXCEPT !.ret = OSVR_RETURN_SUCCESS]
                  ELSE [s1 EXCEPT !.ret = OSVR_RETURN_FAILURE]

\* A copy step that takes the left eye's host texture for every eye
RenderViewD3D11_LeftOnly(s, i) ==
    IF i + 1 > Len(s.renderBuffers)
    THEN Log(AddFault(s, "index_out_of_range"), "CopyResource", -1, s.leftEyeTexturePtr)
    ELSE Log(s, "CopyResource", s.renderBuffers[i + 1].id, s.leftEyeTexturePtr)

\* void RenderViewD3D11(renderInfo[i], renderBuffers[i].D3D11->colorBufferView, i),
\* as OnRenderEvent calls it, i counted from 0: the copy of the eye's host
\* texture into renderBuffers[eyeIndex]
RenderViewD3D11(s, i) ==
    IF i + 1 > Len(s.renderBuffers)
    THEN Log(AddFault(s, "index_out_of_range"), "CopyResource", -1,
             IF i = 0 THEN s.leftEyeTexturePtr ELSE s.rightEyeTexturePtr)
    ELSE Log(s, "CopyResource", s.renderBuffers[i + 1].id,
             IF i = 0 THEN s.leftEyeTexturePtr ELSE s.rightEyeTexturePtr)

\* void RenderViewOpenGL(renderInfo[i], frameBuffer,
\*                       renderBuffers[i].OpenGL->colorBufferName, i)
RenderViewOpenGL(s, i) ==
    IF i + 1 > Len(s.renderBuffers)
    THEN Log(AddFault(s, "index_out_of_range"), "glFramebufferTexture", s.frameBuffer, -1)
    ELSE LET id == s.renderBuffers[i + 1].id
             s1 == IF s.native[id].wrapper = "freed"
                   THEN AddFault(s, "use_after_free") ELSE s
         IN  Log(s1, "glFramebufferTexture", s.frameBuffer, id)

RECURSIVE RenderLoopD3D11(_, _)
RenderLoopD3D11(s, i) ==
    IF i >= Len(s.renderInfo) THEN s ELSE RenderLoopD3D11(RenderViewD3D11(s, i), i + 1)

RECURSIVE RenderLoopOpenGL(_, _)
RenderLoopOpenGL(s, i) ==
    IF i >= Len(s.renderInfo) THEN s ELSE RenderLoopOpenGL(RenderViewOpenGL(s, i), i + 1)

\* A present whose failure makes the plugin drop its buffers
Present_FailureDropsBuffers(s, flipY, presentOK) ==
    LET s1 == Log(s, "PresentRenderBuffers", IF flipY THEN 1 ELSE 0,
                  Len(s.renderBuffers))
    IN  IF presentOK THEN s1
        ELSE [Log(s1, "DebugLog", 0, 0) EXCEPT !.renderBuffers = <<>>]

\* if (!render->PresentRenderBuffers(renderBuffers, flipY)) DebugLog(...);
\* a = flipY, b = buffers handed over; presentOK is what the manager answers
Present(s, flipY, presentOK) ==
    LET s1 == Log(s, "PresentRenderBuffers", IF flipY THEN 1 ELSE 0,
                  Len(s.renderBuffers))
    IN  IF presentOK THEN s1 ELSE Log(s1, "DebugLog", 0, 0)

\* A tick that presents before it renders the eyes
RenderTick_PresentFirst(s, env) ==
    LET s1 == RefreshRenderInfo(s, env)
    IN  IF s.s_DeviceType = kUnityGfxRendererD3D11
        THEN RenderLoopD3D11(Present(s1, TRUE, env.presentOK), 0)
        ELSE IF s.s_DeviceType = kUnityGfxRendererOpenGL
             THEN RenderLoopOpenGL(Present(RefreshRenderInfo(s1, env), FALSE,
                                           env.presentOK), 0)
             ELSE s1

\* case kOsvrEventID_Render of OnRenderEvent
RenderTick(s, env) ==
    LET s1 == RefreshRenderInfo(s, env)
    IN  IF s.s_DeviceType = kUnityGfxRendererD3D11
        THEN Present(RenderLoopD3D11(s1, 0), TRUE, env.presentOK)
        ELSE IF s.s_DeviceType = kUnityGfxRendererOpenGL
             THEN Present(RenderLoopOpenGL(RefreshRenderInfo(s1, env), 0), FALSE,
                          env.presentOK)
             ELSE s1

\* void OnRenderEvent(int eventID)
OnRenderEvent(s, eventID, env) ==
    IF s.s_DeviceType = -1 THEN s
    ELSE IF eventID = kOsvrEventID_Render THEN RenderTick(s, env)
    ELSE IF eventID = kOsvrEventID_Shutdown THEN Shutdown(s)
    ELSE s

\* static void DoEventGraphicsDeviceD3D11(UnityGfxDeviceEventType eventType)
DoEventGraphicsDeviceD3D11(s, eventType) ==
    LET s1 == Log(s, "DoEventGraphicsDeviceD3D11", eventType, 0)
    IN  IF eventType = kUnityGfxDeviceEventInitialize
        THEN [s1 EXCEPT !.bindings = @ + 1, !.libraryD3D11 = s.bindings + 1]
        ELSE IF eventType = kUnityGfxDeviceEventShutdown
             THEN DeleteRender(s1)
             ELSE s1

\* static void DoEventGraphicsDeviceOpenGL(UnityGfxDeviceEventType eventType)
DoEventGraphicsDeviceOpenGL(s, eventType) ==
    Log(s, "DoEventGraphicsDeviceOpenGL", eventType, 0)

\* A switch whose Shutdown case forgets to reset s_DeviceType
DeviceTypeAfter_ShutdownKept(s, eventType) ==
    IF eventType = kUnityGfxDeviceEventInitialize THEN s.renderer ELSE s.s_DeviceType

\* s_DeviceType as the switch of OnGraphicsDeviceEvent leaves it
DeviceTypeAfter(s, eventType) ==
    IF eventType = kUnityGfxDeviceEventInitialize THEN s.renderer
    ELSE IF eventType = kUnityGfxDeviceEventShutdown THEN kUnityGfxRendererNull
    ELSE s.s_DeviceType

\* A dispatcher that forwards with the updated s_DeviceType for every event
CurrentDeviceType_Updated(s, eventType) == DeviceTypeAfter(s, eventType)

\* currentDeviceType as the switch of OnGraphicsDeviceEvent leaves it
CurrentDeviceType(s, eventType) ==
    IF eventType = kUnityGfxDeviceEventInitialize THEN s.renderer ELSE s.s_DeviceType

\* static void OnGraphicsDeviceEvent(UnityGfxDeviceEventType eventType)
OnGraphicsDeviceEvent(s, eventType) ==
    LET currentDeviceType == CurrentDeviceType(s, eventType)
        s1 == [s EXCEPT !.s_DeviceType = DeviceTypeAfter(s, eventType)]
        s2 == IF currentDeviceType = kUnityGfxRendererOpenGL
              THEN DoEventGraphicsDeviceOpenGL(s1, eventType) ELSE s1
    IN  IF currentDeviceType = kUnityGfxRendererD3D11
        THEN DoEventGraphicsDeviceD3D11(s2, eventType) ELSE s2

\* void UnityPluginLoad(IUnityInterfaces* unityInterfaces)
UnityPluginLoad(s) ==
    OnGraphicsDeviceEvent([s EXCEPT !.s_Graphics = 1, !.registered = TRUE],
                          kUnityGfxDeviceEventInitialize)

\* void UnityPluginUnload()
UnityPluginUnload(s) ==
    OnGraphicsDeviceEvent([s EXCEPT !.registered = FALSE], kUnityGfxDeviceEventShutdown)

\* A creation that does not look at what OpenDisplay reported
CreateReturn_OpenIgnored(outcome, openOK) ==
    IF outcome = "null" \/ outcome = "notOkay" THEN OSVR_RETURN_FAILURE
    ELSE OSVR_RETURN_SUCCESS

\* What CreateRenderManagerFromUnity returns: outcome is what createRenderManager
\* produced, openOK whether OpenDisplay reported other than FAILURE
CreateReturn(outcome, openOK) ==
    IF outcome = "null" \/ outcome = "notOkay" THEN OSVR_RETURN_FAILURE
    ELSE IF ~openOK THEN OSVR_RETURN_FAILURE
    ELSE OSVR_RETURN_SUCCESS

\* The object a null `render` points to
NoManager == [st |-> "none", okay |-> FALSE, opened |-> FALSE]

\* OSVR_ReturnCode CreateRenderManagerFromUnity(OSVR_ClientContext context);
\* the manager `render` pointed to before is neither deleted nor reachable any more
CreateRenderManagerFromUnity(s, context, outcome, openOK, pose) ==
    LET s1 == Log([s EXCEPT !.clientContext = context], "createRenderManager", context, 0)
        made == [s1 EXCEPT !.render = 1,
                           !.mgr = [st |-> "live", okay |-> outcome = "okay",
                                    opened |-> FALSE]]
        s2 == IF outcome = "null" THEN [s1 EXCEPT !.render = 0, !.mgr = NoManager]
              ELSE Log(made, "doingOkay", 1, 0)
        s3 == IF outcome = "okay"
              THEN [Log(s2, "OpenDisplay", 1, 0) EXCEPT !.mgr.opened = openOK]
              ELSE s2
        s4 == IF outcome = "okay" /\ openOK THEN RefreshRenderInfo(s3, [pose |-> pose, garbage |-> <<>>]) ELSE s3
    IN  [s4 EXCEPT !.ret = CreateReturn(outcome, openOK)]

\* renderInfo[eye].viewport, .projection or .pose as a caller sees it: the
\* named field of the entry the manager made for `entry.eye` from the tracker
\* state `entry.pose`
FieldOf(entry, field) == [field |-> field, eye |-> entry.eye, pose |-> entry.pose]

\* Entries a read of renderInfo[eye] past the end of the vector may produce:
\* what looks like an entry of either eye
GarbageEntries == {[eye |-> e, pose |-> 0] : e \in Eyes}

\* What the outside world decides during one accessor call.  With a usable
\* `render`: the tracker state, and what the read of renderInfo[eye] produces
\* when it is past the end.  With a null or dangling `render` the call reads
\* either nothing, and then what looks like the other eye's entry past the
\* end, or what looks like an answer of the manager
AccessChoices(s, eye) ==
    IF RenderDeref(s) # "none"
    THEN {[pose |-> 0, garbage |-> <<>>, entry |-> [eye |-> 1 - eye, pose |-> 0]],
          [pose |-> 0, garbage |-> InfoOf(s.displayEyes, 0),
           entry |-> [eye |-> eye, pose |-> 0]]}
    ELSE IF s.mgr.okay /\ s.mgr.opened /\ eye + 1 <= s.displayEyes
         THEN {[pose |-> p, garbage |-> <<>>, entry |-> [eye |-> eye, pose |-> p]] :
                  p \in Poses}
         ELSE {[pose |-> p, garbage |-> <<>>, entry |-> g] :
                  p \in IF s.mgr.okay /\ s.mgr.opened THEN Poses ELSE {0},
                  g \in GarbageEntries}

\* An accessor body that answers from the entry of the left eye whatever eye
\* is asked for
ReadField_LeftEye(s, eye, field, env) ==
    LET s1 == ReadInfo(RefreshRenderInfo(s, env), eye)
    IN  [s1 EXCEPT !.ret = FieldOf(IF s1.renderInfo = <<>> THEN env.entry
                                   ELSE s1.renderInfo[1], field)]

\* The body the three accessors share:
\*   renderInfo = render->GetRenderInfo();
\*   return renderInfo[eye].<field>;
ReadField(s, eye, field, env) ==
    LET s1 == ReadInfo(RefreshRenderInfo(s, env), eye)
    IN  [s1 EXCEPT !.ret = FieldOf(IF eye + 1 > Len(s1.renderInfo) THEN env.entry
                                   ELSE s1.renderInfo[eye + 1], field)]

\* osvr::renderkit::OSVR_ViewportDescription GetViewport(int eye)
GetViewport(s, eye, env) == ReadField(s, eye, "viewport", env)

\* osvr::renderkit::OSVR_ProjectionMatrix GetProjectionMatrix(int eye)
GetProjectionMatrix(s, eye, env) == ReadField(s, eye, "projection", env)

\* OSVR_Pose3 GetEyePose(int eye)
GetEyePose(s, eye, env) == ReadField(s, eye, "pose", env)

-----------------------------------------------------------------------------
\* The state machine

Init ==
    /\ s_Graphics = 0
    /\ registered = FALSE
    /\ renderer \in HostRenderers
    /\ displayEyes \in EyeCounts
    /\ s_DeviceType = kUnityGfxRendererNull
    /\ render = 0
    /\ mgr = NoManager
    /\ clientContext = 0
    /\ renderInfo = <<>>
    /\ renderBuffers = <<>>
    /\ native = <<>>
    /\ leftEyeTexturePtr = 0
    /\ rightEyeTexturePtr = 0
    /\ libraryD3D11 = 0
    /\ bindings = 0
    /\ frameBuffer = 0
    /\ fbos = <<>>
    /\ lastOp = [op |-> "none", arg |-> 0]
    /\ calls = <<>>
    /\ ret = "void"
    /\ constructRet = "none"
    /\ fault = "none"
    /\ crashed = FALSE
    /\ tickPc = "idle"
    /\ tickI = 0
    /\ scriptWrote = {}
    /\ tickReads = <<>>

\* The code `op(arg)` has run and produced s; when it ran into undefined
\* behaviour the process may instead have died at that point.
\* Every entry point is enabled only while fault = "none": what the process
\* does after undefined behaviour is not modelled.
CommitProgram(op, arg, s) ==
    /\ lastOp' = [op |-> op, arg |-> arg]
    /\ calls' = s.calls
    /\ ret' = s.ret
    /\ constructRet' = s.constructRet
    /\ fault' = s.fault
    /\ \/ /\ s.fault # "none"
          /\ crashed' = TRUE
          /\ UNCHANGED <<s_Graphics, registered, renderer, displayEyes,
                         s_DeviceType, render, mgr, clientContext, renderInfo, renderBuffers,
                         native, leftEyeTexturePtr, rightEyeTexturePtr,
                         libraryD3D11, bindings, frameBuffer, fbos>>
       \/ /\ crashed' = FALSE
          /\ s_Graphics' = s.s_Graphics
          /\ registered' = s.registered
          /\ renderer' = s.renderer
          /\ displayEyes' = s.displayEyes
          /\ s_DeviceType' = s.s_DeviceType
          /\ render' = s.render
          /\ mgr' = s.mgr
          /\ clientContext' = s.clientContext
          /\ renderInfo' = s.renderInfo
          /\ renderBuffers' = s.renderBuffers
          /\ native' = s.native
          /\ leftEyeTexturePtr' = s.leftEyeTexturePtr
          /\ rightEyeTexturePtr' = s.rightEyeTexturePtr
          /\ libraryD3D11' = s.libraryD3D11
          /\ bindings' = s.bindings
          /\ frameBuffer' = s.frameBuffer
          /\ fbos' = s.fbos

\* The entry point `op(arg)` has run to completion on its own and produced s
Commit(op, arg, s) ==
    /\ CommitProgram(op, arg, s)
    /\ UNCHANGED threadVars

\* The plugin is loaded and running: the host calls UnityPluginLoad before any
\* other entry point and nothing after UnityPluginUnload
Running == fault = "none" /\ registered

\* The host loads the plugin
PluginLoad ==
    /\ fault = "none" /\ s_Graphics = 0
    /\ renderer = kUnityGfxRendererD3D11 => bindings < MaxBindings
    /\ Commit("UnityPluginLoad", 0, UnityPluginLoad(State))

\* The host unloads the plugin
PluginUnload ==
    /\ Running
    /\ Commit("UnityPluginUnload", 0, UnityPluginUnload(State))

\* The host raises a graphics-device event on the registered callback
DeviceEvent ==
    /\ Running
    /\ \E eventType \in DeviceEvents :
          /\ (eventType = kUnityGfxDeviceEventInitialize
                 /\ renderer = kUnityGfxRendererD3D11) => bindings < MaxBindings
          /\ Commit("OnGraphicsDeviceEvent", eventType,
                    OnGraphicsDeviceEvent(State, eventType))

\* A script calls CreateRenderManagerFromUnity
CreateRenderManager ==
    /\ Running
    /\ \E context \in Contexts, outcome \in CreateOutcomes :
       \E openOK \in IF outcome = "okay" THEN BOOLEAN ELSE {FALSE} :
       \E pose \in IF openOK THEN Poses ELSE {0} :
          Commit("CreateRenderManagerFromUnity", context,
                 CreateRenderManagerFromUnity(State, context, outcome, openOK, pose))

\* Whether a D3D11 creation call succeeds (the OpenGL path makes none)
NativeOutcomes == IF s_DeviceType = kUnityGfxRendererD3D11 THEN BOOLEAN ELSE {TRUE}

\* A script calls SetColorBufferFromUnity
SetColorBuffer ==
    /\ Running
    /\ Len(native) < MaxNative
    /\ \E eye \in Eyes, texOK \in NativeOutcomes, env \in EnvChoices(State) :
       \E viewOK \in IF texOK THEN NativeOutcomes ELSE {FALSE} :
       \E texturePtr \in HostTexturePtrs(eye) :
          Commit("SetColorBufferFromUnity", eye,
                 SetColorBufferFromUnity(State, texturePtr, eye, texOK, viewOK,
                                         env))

\* The render thread runs the callback GetRenderEventFunc handed out
RenderEvent ==
    /\ Running
    /\ \E eventID \in RenderEventIDs :
       \E env \in IF eventID = kOsvrEventID_Render THEN TickChoices(State)
                  ELSE {CHOOSE e \in TickChoices(State) : TRUE} :
          Commit("OnRenderEvent", eventID, OnRenderEvent(State, eventID, env))

\* A script calls GetViewport
Viewport ==
    /\ Running
    /\ \E eye \in Eyes : \E env \in AccessChoices(State, eye) :
          Commit("GetViewport", eye, GetViewport(State, eye, env))

\* A script calls GetProjectionMatrix
ProjectionMatrix ==
    /\ Running
    /\ \E eye \in Eyes : \E env \in AccessChoices(State, eye) :
          Commit("GetProjectionMatrix", eye, GetProjectionMatrix(State, eye, env))

\* A script calls GetEyePose
EyePose ==
    /\ Running
    /\ \E eye \in Eyes : \E env \in AccessChoices(State, eye) :
          Commit("GetEyePose", eye, GetEyePose(State, eye, env))

Next ==
    \/ PluginLoad
    \/ PluginUnload
    \/ DeviceEvent
    \/ CreateRenderManager
    \/ SetColorBuffer
    \/ RenderEvent
    \/ Viewport
    \/ ProjectionMatrix
    \/ EyePose

Spec == Init /\ [][Next]_vars

-----------------------------------------------------------------------------
\* The render tick step by step.  The host runs OnRenderEvent on its render
\* thread and may run SetColorBufferFromUnity on its script thread; the plugin
\* takes no lock, so a registration can run between any two statements of a
\* tick.  Here the tick is cut at its reads of the shared vectors: the refresh,
\* each pass of the loop, and the present.

\* The shared vectors the call that produced s has written
WroteShared(s) ==
    (IF \E k \in 1..Len(s.calls) : s.calls[k].op = "GetRenderInfo"
     THEN {"renderInfo"} ELSE {})
    \cup (IF s.renderBuffers # renderBuffers THEN {"renderBuffers"} ELSE {})

\* renderInfo = render->GetRenderInfo();  at the head of case kOsvrEventID_Render,
\* and once more at the head of the OpenGL branch
TickRefresh(s, env) ==
    LET s1 == RefreshRenderInfo(s, env)
    IN  IF s.s_DeviceType = kUnityGfxRendererOpenGL THEN RefreshRenderInfo(s1, env)
        ELSE s1

\* One pass of the loop of the tick: RenderView*(renderInfo[i], renderBuffers[i]..., i)
TickView(s, i) ==
    IF s.s_DeviceType = kUnityGfxRendererD3D11 THEN RenderViewD3D11(s, i)
    ELSE RenderViewOpenGL(s, i)

\* The render thread enters OnRenderEvent(kOsvrEventID_Render) and refreshes
\* renderInfo; without a backend that is the whole tick
TickBegin ==
    /\ Running /\ tickPc = "idle"
    /\ s_DeviceType # -1
    /\ \E env \in EnvChoices(State) :
          CommitProgram("OnRenderEvent:refresh", kOsvrEventID_Render,
                        TickRefresh(State, env))
    /\ tickPc' = IF s_DeviceType \in {kUnityGfxRendererD3D11, kUnityGfxRendererOpenGL}
                 THEN "loop" ELSE "idle"
    /\ tickI' = 0
    /\ scriptWrote' = {}
    /\ tickReads' = <<>>

\* for (size_t i = 0; i < renderInfo.size(); i++) RenderView*(renderInfo[i], ...):
\* one pass, reading the vectors as they are now
TickEye ==
    /\ Running /\ tickPc = "loop"
    /\ tickI < Len(renderInfo)
    /\ CommitProgram("OnRenderEvent:eye", tickI, TickView(State, tickI))
    /\ tickReads' = Append(tickReads, scriptWrote)
    /\ tickI' = tickI + 1
    /\ UNCHANGED <<tickPc, scriptWrote>>

\* The loop has ended: render->PresentRenderBuffers(renderBuffers, ...) and
\* return, which ends the life of i
TickPresent ==
    /\ Running /\ tickPc = "loop"
    /\ tickI >= Len(renderInfo)
    /\ \E presentOK \in BOOLEAN :
          CommitProgram("OnRenderEvent:present", tickI,
                        Present(State, s_DeviceType = kUnityGfxRendererD3D11, presentOK))
    /\ tickReads' = Append(tickReads, scriptWrote \cap {"renderBuffers"})
    /\ tickPc' = "idle"
    /\ tickI' = 0
    /\ scriptWrote' = {}

\* The render thread runs OnRenderEvent with another event ID
RenderEventOther ==
    /\ Running /\ tickPc = "idle"
    /\ \E eventID \in RenderEventIDs \ {kOsvrEventID_Render} :
          Commit("OnRenderEvent", eventID,
                 OnRenderEvent(State, eventID, CHOOSE e \in TickChoices(State) : TRUE))

\* The script thread calls SetColorBufferFromUnity, whatever the render thread
\* is doing
ScriptRegister ==
    /\ Running
    /\ Len(native) < MaxNative
    /\ \E eye \in Eyes, texOK \in NativeOutcomes, env \in EnvChoices(State) :
       \E viewOK \in IF texOK THEN NativeOutcomes ELSE {FALSE} :
       \E texturePtr \in HostTexturePtrs(eye) :
          LET s == SetColorBufferFromUnity(State, texturePtr, eye, texOK, viewOK, env)
          IN  /\ CommitProgram("SetColorBufferFromUnity", eye, s)
              /\ scriptWrote' = IF tickPc = "loop" THEN scriptWrote \cup WroteShared(s)
                                ELSE scriptWrote
    /\ UNCHANGED <<tickPc, tickI, tickReads>>

\* Every other entry point runs while the render thread is outside a tick
HostLoad == tickPc = "idle" /\ PluginLoad

HostUnload == tickPc = "idle" /\ PluginUnload

HostDeviceEvent == tickPc = "idle" /\ DeviceEvent

ScriptCreate == tickPc = "idle" /\ CreateRenderManager

ScriptViewport == tickPc = "idle" /\ Viewport

ScriptProjectionMatrix == tickPc = "idle" /\ ProjectionMatrix

ScriptEyePose == tickPc = "idle" /\ EyePose

NextThreads ==
    \/ HostLoad
    \/ HostUnload
    \/ HostDeviceEvent
    \/ ScriptCreate
    \/ ScriptRegister
    \/ TickBegin
    \/ TickEye
    \/ TickPresent
    \/ RenderEventOther
    \/ ScriptViewport
    \/ ScriptProjectionMatrix
    \/ ScriptEyePose

SpecThreads == Init /\ [][NextThreads]_vars

-----------------------------------------------------------------------------
\* Vocabulary of the properties

IsOp(op, arg) == lastOp = [op |-> op, arg |-> arg]

RenderTicked == IsOp("OnRenderEvent", kOsvrEventID_Render)

ShutdownTicked == IsOp("OnRenderEvent", kOsvrEventID_Shutdown)

Created == lastOp.op = "CreateRenderManagerFromUnity"

Registered == lastOp.op = "SetColorBufferFromUnity"

\* The last entry point ran OnGraphicsDeviceEvent
DeviceEventRan ==
    lastOp.op \in {"OnGraphicsDeviceEvent", "UnityPluginLoad", "UnityPluginUnload"}

\* The device event it ran
EventRan ==
    IF lastOp.op = "UnityPluginLoad" THEN kUnityGfxDeviceEventInitialize
    ELSE IF lastOp.op = "UnityPluginUnload" THEN kUnityGfxDeviceEventShutdown
    ELSE lastOp.arg

IsHandlerCall(c) ==
    c.op \in {"DoEventGraphicsDeviceD3D11", "DoEventGraphicsDeviceOpenGL"}

IsManagerCall(c) == c.op \in {"GetRenderInfo", "PresentRenderBuffers"}

IsCopyCall(c) == c.op \in {"CopyResource", "glFramebufferTexture"}

IsInfoCall(c) == c.op = "GetRenderInfo"

IsOpenCall(c) == c.op = "OpenDisplay"

IsPresentCall(c) == c.op = "PresentRenderBuffers"

\* The backend kinds the plugin has code for
Backends == {kUnityGfxRendererD3D11, kUnityGfxRendererOpenGL}

\* The last entry point was one of the three RenderInfo accessors
AccessorRan == lastOp.op \in {"GetViewport", "GetProjectionMatrix", "GetEyePose"}

\* The RenderInfo field the accessor `op` is to return
AccessorField(op) ==
    IF op = "GetViewport" THEN "viewport"
    ELSE IF op = "GetProjectionMatrix" THEN "projection"
    ELSE "pose"

\* PresentRenderBuffers answered false in the last entry point
PresentFailed == \E k \in 1..Len(calls) : calls[k].op = "DebugLog"

\* The plugin's globals and heap as the record s leaves them
ProgramOf(s) ==
    [s EXCEPT !.calls = <<>>, !.ret = "void", !.constructRet = "none",
              !.fault = "none"]

\* The buffer a copy step wrote to
CopyTarget(c) == IF c.op = "CopyResource" THEN c.a ELSE c.b

\* renderBuffers[i] wraps a color target the OpenGL backend made
IsOpenGLBuffer(i) == native[renderBuffers[i].id].depth # "none"

\* `render` points to a live manager that is okay and has its display open
UsableSession == render # 0 /\ mgr.st = "live" /\ mgr.okay /\ mgr.opened

\* The backend handlers a device event of kind `kind` is to reach
HandlersFor(kind, eventType) ==
    IF kind = kUnityGfxRendererOpenGL
    THEN <<Call("DoEventGraphicsDeviceOpenGL", eventType, 0)>>
    ELSE IF kind = kUnityGfxRendererD3D11
         THEN <<Call("DoEventGraphicsDeviceD3D11", eventType, 0)>>
         ELSE <<>>

\* The session `render` points to cannot be used: there is none, or its
\* creation failed
NoUsableSession == render = 0 \/ (mgr.st = "live" /\ (~mgr.okay \/ ~mgr.opened))

-----------------------------------------------------------------------------
\* C1: the render manager is released at most once per creation: no entry
\* point deletes a manager that is already deleted.
C1_ReleasedAtMostOnce == fault # "double_free"

\* C2: after OnRenderEvent(1) the session pointer is null, and an
\* OnRenderEvent(0) that follows makes no call at all and touches no released
\* session.
C2_ShutdownThenRenderIsNoOp ==
    [][/\ ShutdownTicked' => render' = 0
       /\ (ShutdownTicked /\ RenderTicked') => (calls' = <<>> /\ fault' = "none")]_vars

\* C3: CreateRenderManagerFromUnity returns Success exactly when the manager
\* was constructed okay and its display opened; it does not open the display
\* of a manager that is null or not okay, does not fetch RenderInfo when the
\* display did not open, and on Success renderInfo is the answer of the one
\* GetRenderInfo call it made.
C3_CreateReturnsSuccessIffOpened ==
    Created =>
        /\ ret = OSVR_RETURN_SUCCESS <=> (render # 0 /\ mgr.okay /\ mgr.opened)
        /\ ret \in {OSVR_RETURN_SUCCESS, OSVR_RETURN_FAILURE}
        /\ (render = 0 \/ ~mgr.okay) => SelectSeq(calls, IsOpenCall) = <<>>
        /\ ~mgr.opened => SelectSeq(calls, IsInfoCall) = <<>>
        /\ ret = OSVR_RETURN_SUCCESS =>
              /\ Len(SelectSeq(calls, IsInfoCall)) = 1
              /\ Len(SelectSeq(calls, IsOpenCall)) = 1
              /\ Len(renderInfo) = displayEyes
              /\ renderInfo = InfoOf(displayEyes, SelectSeq(calls, IsInfoCall)[1].a)

C3_Witness ==
    /\ Created /\ ret = OSVR_RETURN_SUCCESS
    /\ mgr.st = "live" /\ Len(renderInfo) = 2

\* C4: with no usable session (CreateRenderManagerFromUnity never called, or
\* it returned Failure) OnRenderEvent(0) dereferences no null or unusable
\* session, copies nothing and presents nothing.  Stated for the ticks that
\* run with a backend active.
C4_RenderTickInertWithoutSession ==
    (/\ RenderTicked
     /\ NoUsableSession
     /\ s_DeviceType \in {kUnityGfxRendererD3D11, kUnityGfxRendererOpenGL}) =>
        /\ fault = "none"
        /\ SelectSeq(calls, IsCopyCall) = <<>>
        /\ SelectSeq(calls, IsManagerCall) = <<>>

\* C5: a device event leaves s_DeviceType at the host's renderer kind after
\* Initialize, at kUnityGfxRendererNull after Shutdown and unchanged after
\* BeforeReset and AfterReset; with a renderer kind that is neither OpenGL nor
\* D3D11 no backend handler runs.
C5_DeviceTypeMutation ==
    [][(DeviceEventRan' /\ ~crashed') =>
          /\ EventRan' = kUnityGfxDeviceEventInitialize => s_DeviceType' = renderer
          /\ EventRan' = kUnityGfxDeviceEventShutdown =>
                s_DeviceType' = kUnityGfxRendererNull
          /\ EventRan' \in {kUnityGfxDeviceEventBeforeReset,
                            kUnityGfxDeviceEventAfterReset} =>
                s_DeviceType' = s_DeviceType
          /\ renderer \notin {kUnityGfxRendererOpenGL, kUnityGfxRendererD3D11} =>
                SelectSeq(calls', IsHandlerCall) = <<>>]_vars

C5_Witness ==
    /\ IsOp("OnGraphicsDeviceEvent", kUnityGfxDeviceEventShutdown)
    /\ renderer = kUnityGfxRendererD3D11
    /\ s_DeviceType = kUnityGfxRendererNull
    /\ ~crashed

\* C6 as claimed: a device event reaches exactly the handler of the backend
\* kind s_DeviceType has after the event's own update, and none when that
\* kind has no handler.
C6_HandlerOfUpdatedKind ==
    (DeviceEventRan /\ ~crashed) =>
        SelectSeq(calls, IsHandlerCall) = HandlersFor(s_DeviceType, EventRan)

\* C6 as amended: a device event reaches exactly the handler of
\* currentDeviceType, which is the just-updated s_DeviceType for Initialize
\* and the s_DeviceType from before the event for Shutdown, BeforeReset and
\* AfterReset; none when that kind has no handler.
C6_HandlerOfCurrentDeviceType ==
    [][DeviceEventRan' =>
          SelectSeq(calls', IsHandlerCall) =
              HandlersFor(IF EventRan' = kUnityGfxDeviceEventInitialize
                          THEN s_DeviceType' ELSE s_DeviceType, EventRan')]_vars

C6_Witness ==
    /\ IsOp("OnGraphicsDeviceEvent", kUnityGfxDeviceEventShutdown)
    /\ s_DeviceType = kUnityGfxRendererNull
    /\ calls # <<>>
    /\ calls[1] = Call("DoEventGraphicsDeviceD3D11", kUnityGfxDeviceEventShutdown, 0)

\* C7: a second OnRenderEvent(1) right after a first one does not fault, and
\* s_DeviceType is kUnityGfxRendererNull after the first and after the second.
C7_ShutdownTwice ==
    [][(ShutdownTicked /\ ShutdownTicked') =>
          /\ fault' = "none"
          /\ s_DeviceType = kUnityGfxRendererNull
          /\ s_DeviceType' = kUnityGfxRendererNull]_vars

\* C8: when ConstructBuffersD3D11 fails, SetColorBufferFromUnity returns
\* Failure; it returns Success only when the buffer was constructed.
C8_ConstructFailureReported ==
    (Registered /\ fault = "none") =>
        /\ constructRet = OSVR_RETURN_FAILURE => ret = OSVR_RETURN_FAILURE
        /\ (ret = OSVR_RETURN_SUCCESS /\ s_DeviceType = kUnityGfxRendererD3D11) =>
              constructRet = OSVR_RETURN_SUCCESS

\* C9: renderBuffers holds the buffer of eye e at index e, and one buffer per
\* registered eye.
C9_BufferAtEyeIndex ==
    fault = "none" =>
        \A i \in 1..Len(renderBuffers) : renderBuffers[i].eye = i - 1

\* C10: after Shutdown() every native color target created so far is released.
C10_NoColorTargetLeak ==
    (ShutdownTicked /\ fault = "none") =>
        \A i \in 1..Len(native) : native[i].color = "released"

\* C11: in the D3D11 backend, with the buffer of eye 0 registered first and
\* the buffer of eye 1 second, a two-eye OnRenderEvent(0) makes exactly two
\* copies, the left host texture into buffer 0 and then the right host
\* texture into buffer 1, and exactly one PresentRenderBuffers call, over both
\* buffers and with flipY = true.
C11_TwoCopiesOnePresent ==
    (/\ RenderTicked /\ fault = "none"
     /\ s_DeviceType = kUnityGfxRendererD3D11
     /\ Len(renderInfo) = 2
     /\ Len(renderBuffers) = 2
     /\ renderBuffers[1].eye = 0 /\ renderBuffers[2].eye = 1
     /\ leftEyeTexturePtr # 0 /\ rightEyeTexturePtr # 0) =>
        /\ SelectSeq(calls, IsCopyCall) =
              <<Call("CopyResource", renderBuffers[1].id, leftEyeTexturePtr),
                Call("CopyResource", renderBuffers[2].id, rightEyeTexturePtr)>>
        /\ leftEyeTexturePtr \in HostTexturePtrs(0)
        /\ rightEyeTexturePtr \in HostTexturePtrs(1)
        /\ renderBuffers[1].id # renderBuffers[2].id
        /\ SelectSeq(calls, IsPresentCall) = <<Call("PresentRenderBuffers", 1, 2)>>

C11_Witness ==
    /\ RenderTicked /\ fault = "none"
    /\ s_DeviceType = kUnityGfxRendererD3D11
    /\ Len(renderInfo) = 2
    /\ Len(renderBuffers) = 2
    /\ renderBuffers[1].eye = 0 /\ renderBuffers[2].eye = 1
    /\ leftEyeTexturePtr # 0 /\ rightEyeTexturePtr # 0
    /\ Len(SelectSeq(calls, IsCopyCall)) = 2

\* C12: SetColorBufferFromUnity returns Failure, and constructs nothing,
\* whenever s_DeviceType is neither D3D11 nor OpenGL: before an Initialize
\* event took effect, after a Shutdown event, or with a renderer the plugin
\* has no backend for.
C12_FailureWithoutBackend ==
    (Registered /\ s_DeviceType \notin Backends) =>
        /\ ret = OSVR_RETURN_FAILURE
        /\ calls = <<>>
        /\ fault = "none"

C12_Witness ==
    /\ Registered
    /\ renderer = kUnityGfxRendererD3D11
    /\ s_DeviceType = kUnityGfxRendererNull
    /\ ret = OSVR_RETURN_FAILURE

\* C13: with s_DeviceType neither D3D11 nor OpenGL, OnRenderEvent(0) does
\* nothing: no GetRenderInfo, no copy, no present, no fault, no state change.
C13_RenderTickSilentWithoutBackend ==
    [][(RenderTicked' /\ s_DeviceType \notin Backends) =>
          /\ calls' = <<>>
          /\ fault' = "none"
          /\ renderInfo' = renderInfo]_vars

\* C14: on a usable session, GetViewport(eye), GetProjectionMatrix(eye) and
\* GetEyePose(eye), for an eye of the display, fetch RenderInfo once, store
\* it, and return their field of entry `eye` of that very fetch: never of
\* the other eye's entry, never of an earlier fetch.
C14_AccessorsReturnFreshEntry ==
    (AccessorRan /\ UsableSession /\ lastOp.arg < displayEyes) =>
        /\ fault = "none"
        /\ Len(calls) = 1 /\ IsInfoCall(calls[1])
        /\ renderInfo = InfoOf(displayEyes, calls[1].a)
        /\ ret = [field |-> AccessorField(lastOp.op), eye |-> lastOp.arg,
                  pose |-> calls[1].a]
        /\ ret = FieldOf(renderInfo[lastOp.arg + 1], AccessorField(lastOp.op))

C14_Witness ==
    /\ IsOp("GetEyePose", 1) /\ UsableSession /\ fault = "none"
    /\ Len(renderInfo) = 2
    /\ ret = [field |-> "pose", eye |-> 1, pose |-> 1]

\* C15: the three accessors are guarded: called with no session, a failed
\* or an already deleted one, or with an eye index RenderInfo has no entry
\* for, they dereference no missing session and read no absent entry.
C15_AccessorsGuarded == AccessorRan => fault = "none"

\* C16: in the OpenGL backend, whenever a buffer of eye 1 is registered the
\* shared framebuffer has been created.
C16_Eye1BufferHasFramebuffer ==
    (/\ fault = "none"
     /\ \E i \in 1..Len(renderBuffers) :
           renderBuffers[i].eye = 1 /\ IsOpenGLBuffer(i)) =>
        fbos # <<>> /\ frameBuffer # 0

\* C17: at most one GraphicsLibraryD3D11 is allocated at any time, and none
\* is left after a Shutdown device event.
C17_AtMostOneBinding ==
    /\ bindings <= 1
    /\ (DeviceEventRan /\ EventRan = kUnityGfxDeviceEventShutdown /\ ~crashed) =>
          bindings = 0

\* C18: a render tick whose PresentRenderBuffers answers false leaves the
\* plugin's state exactly as the same tick with a successful present leaves
\* it and makes the same calls plus the log line; the next OnRenderEvent(0)
\* again refreshes RenderInfo, renders every eye and presents once.
C18_PresentFailureChangesNothing ==
    [][/\ (RenderTicked' /\ PresentFailed' /\ fault' = "none") =>
             \E env \in TickChoices(State) :
                /\ env.presentOK
                /\ State' = ProgramOf(OnRenderEvent(State, kOsvrEventID_Render, env))
                /\ calls' = Append(OnRenderEvent(State, kOsvrEventID_Render,
                                                 env).calls,
                                   Call("DebugLog", 0, 0))
       /\ (/\ RenderTicked /\ PresentFailed /\ fault = "none"
           /\ RenderTicked' /\ fault' = "none") =>
             /\ IsInfoCall(calls'[1])
             /\ Len(SelectSeq(calls', IsCopyCall)) = Len(renderInfo')
             /\ Len(SelectSeq(calls', IsPresentCall)) = 1]_vars

C18_Witness ==
    /\ RenderTicked /\ PresentFailed /\ fault = "none"
    /\ Len(SelectSeq(calls, IsCopyCall)) = 2
    /\ Len(renderBuffers) = 2

\* C19: an OnRenderEvent(0) with a backend active, running without fault,
\* first refreshes RenderInfo, then renders entry 0, 1, ... of RenderInfo in
\* that order, each into the buffer at its index, then presents exactly once,
\* after the last eye and over all of renderBuffers, with flipY = true
\* exactly for D3D11.
C19_TickOrder ==
    (RenderTicked /\ fault = "none" /\ s_DeviceType \in Backends) =>
        \E r \in 1..2 :
           LET n == Len(renderInfo)
           IN  /\ Len(calls) >= r + n + 1
               /\ \A k \in 1..r : IsInfoCall(calls[k])
               /\ \A k \in 1..n :
                     /\ IsCopyCall(calls[r + k])
                     /\ CopyTarget(calls[r + k]) = renderBuffers[k].id
               /\ calls[r + n + 1] =
                     Call("PresentRenderBuffers",
                          IF s_DeviceType = kUnityGfxRendererD3D11 THEN 1 ELSE 0,
                          Len(renderBuffers))
               /\ \A k \in (r + n + 2)..Len(calls) : calls[k].op = "DebugLog"

C19_Witness ==
    /\ RenderTicked /\ fault = "none"
    /\ s_DeviceType = kUnityGfxRendererOpenGL
    /\ Len(renderInfo) = 2
    /\ Len(SelectSeq(calls, IsCopyCall)) = 2

\* C20: a SetColorBufferFromUnity whose ConstructBuffersD3D11 fails leaves
\* renderBuffers as it was, and every buffer the D3D11 backend registered has
\* its color target and its wrapper.
C20_NoPartialBuffer ==
    [][/\ (Registered' /\ constructRet' = OSVR_RETURN_FAILURE) =>
             renderBuffers' = renderBuffers
       /\ \A i \in 1..Len(renderBuffers') :
             native'[renderBuffers'[i].id].depth = "none" =>
                /\ native'[renderBuffers'[i].id].color = "live"
                /\ native'[renderBuffers'[i].id].wrapper = "live"]_vars

C20_Witness ==
    /\ Registered /\ constructRet = OSVR_RETURN_FAILURE /\ fault = "none"
    /\ Len(native) = 2 /\ Len(renderBuffers) = 1

\* C21: no OnRenderEvent indexes renderBuffers past its length: the render
\* tick and the loop of the OpenGL Shutdown() touch renderBuffers[i] only for
\* indices a buffer was registered for.
C21_NoBufferIndexPastEnd ==
    lastOp.op = "OnRenderEvent" => fault # "index_out_of_range"

\* C23: in the OpenGL backend at most one framebuffer object is generated
\* and not yet deleted, and after Shutdown() none is left.
C23_OneFramebuffer ==
    /\ Cardinality({k \in 1..Len(fbos) : fbos[k] = "live"}) <= 1
    /\ (ShutdownTicked /\ s_DeviceType = kUnityGfxRendererOpenGL /\ fault = "none") =>
          \A k \in 1..Len(fbos) : fbos[k] = "deleted"

\* C22: a render tick reads renderInfo and renderBuffers as its own refresh and
\* the registrations before it left them: nothing it reads in its loop or hands
\* to the present has been written by the script thread since that refresh.
C22_TickReadsOwnRefresh ==
    \A k \in 1..Len(tickReads) : tickReads[k] = {}

====
